---- MODULE Spec2Model ----
(***************************************************************************)
(* GramVikas conversational backend (src/application/app.py).              *)
(*                                                                         *)
(* The Flask development server (app.run) serves each request on a thread  *)
(* of its own.  The threads share the in-memory dict session_states and    *)
(* the SQLite table of Farmer rows.  A handler is modelled as a sequence   *)
(* of atomic steps that are cut at its blocking calls (database query,     *)
(* commit, geocoder, data providers, speech renderer); the statements      *)
(* between two blocking calls form one step.                               *)
(*                                                                         *)
(* Text is a sequence of one-character strings, so that strip, split,      *)
(* title, lower and substring search are computed as Python computes them. *)
(* An optional value is None (the empty tuple) or Some(x) (a 1-tuple).     *)
(***************************************************************************)
EXTENDS Integers, Sequences, FiniteSets, TLC

VARIABLES
    farmers,         \* the Farmer table: row i has primary key i
    session_states,  \* the dict session_states: session id -> state
    pc,              \* position of every request thread in its handler
    loc,             \* local variables of the handler a thread is running
    resp             \* the HTTP response of a handler that has just returned

vars == <<farmers, session_states, pc, loc, resp>>

---------------------------------------------------------------------------
(* Bounds of the model *)

\* the Farmer table holds at most this many rows
MaxFarmers == 2

\* request threads of the server
Threads == {"t1", "t2"}

\* session ids the clients send
SessionIds == {"s1", "s2"}

\* a missing (or empty) session_id in the request body
NoSid == ""

\* a local variable that has not been assigned
Unbound == <<"unbound", "unbound">>

\* the language the client of a session selects
ClientLang(session_id) == IF session_id = "s2" THEN "en" ELSE "hi"

---------------------------------------------------------------------------
(* Optional values *)

None == <<>>

Some(x) == <<x>>

IsSome(o) == o # None

Val(o) == o[1]

---------------------------------------------------------------------------
(* Text *)

LowerCase ==
    <<"a","b","c","d","e","f","g","h","i","j","k","l","m",
      "n","o","p","q","r","s","t","u","v","w","x","y","z">>

UpperCase ==
    <<"A","B","C","D","E","F","G","H","I","J","K","L","M",
      "N","O","P","Q","R","S","T","U","V","W","X","Y","Z">>

IsLower(c) == \E i \in DOMAIN LowerCase : LowerCase[i] = c

IsUpper(c) == \E i \in DOMAIN UpperCase : UpperCase[i] = c

IsCased(c) == IsLower(c) \/ IsUpper(c)

IsSpace(c) == c = " "

\* str.lower() on one character
LowerChar(c) ==
    IF IsUpper(c)
    THEN LowerCase[CHOOSE i \in DOMAIN UpperCase : UpperCase[i] = c]
    ELSE c

\* str.upper() on one character
UpperChar(c) ==
    IF IsLower(c)
    THEN UpperCase[CHOOSE i \in DOMAIN LowerCase : LowerCase[i] = c]
    ELSE c

\* str.lower()
Lower(s) == [i \in DOMAIN s |-> LowerChar(s[i])]

\* str.title(): a cased character is upper-cased when it starts a run of
\* cased characters and lower-cased otherwise
Title(s) ==
    [i \in DOMAIN s |->
        IF i > 1 /\ IsCased(s[i - 1]) THEN LowerChar(s[i]) ELSE UpperChar(s[i])]

RECURSIVE LStrip(_)
LStrip(s) ==
    IF s # <<>> /\ IsSpace(Head(s)) THEN LStrip(Tail(s)) ELSE s

RECURSIVE RStrip(_)
RStrip(s) ==
    IF s # <<>> /\ IsSpace(s[Len(s)])
    THEN RStrip(SubSeq(s, 1, Len(s) - 1))
    ELSE s

\* a strip() that removes nothing
NoStrip(s) == s

\* str.strip()
Strip(s) == RStrip(LStrip(s))

\* str.split(sep) for a one-character separator: empty parts are kept
RECURSIVE SplitOn(_, _)
SplitOn(s, sep) ==
    IF \E i \in DOMAIN s : s[i] = sep
    THEN LET i == CHOOSE k \in DOMAIN s :
                     s[k] = sep /\ \A j \in 1..(k - 1) : s[j] # sep
         IN  <<SubSeq(s, 1, i - 1)>> \o SplitOn(SubSeq(s, i + 1, Len(s)), sep)
    ELSE <<s>>

\* str.split() without a separator: runs of whitespace separate, no empty part
RECURSIVE SplitWs(_)
SplitWs(s) ==
    LET t == LStrip(s)
    IN  IF t = <<>>
        THEN <<>>
        ELSE IF \E i \in DOMAIN t : IsSpace(t[i])
             THEN LET i == CHOOSE k \in DOMAIN t :
                              IsSpace(t[k]) /\ \A j \in 1..(k - 1) : ~IsSpace(t[j])
                  IN  <<SubSeq(t, 1, i - 1)>> \o SplitWs(SubSeq(t, i, Len(t)))
             ELSE <<t>>

\* sep.join(parts)
RECURSIVE Join(_, _)
Join(parts, sep) ==
    IF parts = <<>>
    THEN <<>>
    ELSE IF Len(parts) = 1
         THEN parts[1]
         ELSE parts[1] \o sep \o Join(Tail(parts), sep)

\* kw in s
Contains(s, kw) ==
    \E i \in 1..(Len(s) - Len(kw) + 1) : SubSeq(s, i, i + Len(kw) - 1) = kw

\* the literal 'Unknown Address'
UnknownAddress ==
    <<"U","n","k","n","o","w","n"," ","A","d","d","r","e","s","s">>

\* the literal 'Kisan'
Kisan == <<"K","i","s","a","n">>

---------------------------------------------------------------------------
(* What the clients type.  A client answers the question its session       *)
(* asked: name and address at step 1, a problem at step 2, a follow-up     *)
(* from step 3 on; a blank query can be sent at any step.                  *)

QRaviPune == <<"r","a","v","i",","," ","p","u","n","e">>

QYellow == <<"l","e","a","v","e","s"," ","y","e","l","l","o","w">>

QPriceWeather == <<"P","r","i","c","e"," ","a","n","d"," ","w","e","a","t","h","e","r">>

QSoil == <<"s","o","i","l"," ","p","H","?">>

QThanks == <<"T","h","a","n","k","s">>

QBlank == <<" ">>

\* the 'query' field of a chat request sent to a session at the given step
Queries(step) ==
    {QBlank} \cup
    CASE step = 1 -> {QRaviPune}
      [] step = 2 -> {QYellow}
      [] step >= 3 -> {QYellow, QPriceWeather, QSoil, QThanks}
      [] OTHER -> {QRaviPune}

\* the step a chat request to session_id will be dispatched on
StepOf(session_id) ==
    IF session_id \in DOMAIN session_states
    THEN session_states[session_id].step
    ELSE 0

---------------------------------------------------------------------------
(* The Farmer table *)

\* a row as Farmer(name, address, language) creates it
NewFarmer(name, address, language) ==
    [name |-> name, address |-> address, language |-> language,
     lat |-> None, lon |-> None, last_problem_summary |-> None]

\* Farmer.query.filter_by(name=name, address=address).first()
FindByNameAddress(fs, name, address) ==
    IF \E i \in DOMAIN fs : fs[i].name = name /\ fs[i].address = address
    THEN Some(CHOOSE i \in DOMAIN fs :
                  /\ fs[i].name = name /\ fs[i].address = address
                  /\ \A j \in 1..(i - 1) :
                         ~(fs[j].name = name /\ fs[j].address = address))
    ELSE None

\* Farmer.query.get(farmer_id)
GetFarmer(fs, fid) ==
    IF IsSome(fid) /\ Val(fid) \in DOMAIN fs THEN fid ELSE None

\* a Farmer table declared without the UniqueConstraint: no insert is refused
NoUniqueConstraint(fs, name, address) == FALSE

\* the UniqueConstraint('name', 'address'): an insert of (name, address)
\* is refused when a row with that pair is in the table
ViolatesUnique(fs, name, address) ==
    \E i \in DOMAIN fs : fs[i].name = name /\ fs[i].address = address

\* truth value of an optional string (None and '' are false)
TruthyText(o) == IsSome(o) /\ Val(o) # <<>>

\* truth value of an optional number (None and 0 are false)
TruthyNum(o) == IsSome(o) /\ Val(o) # 0

---------------------------------------------------------------------------
(* External collaborators: what a call can return *)

\* geocode_address(address): (latitude, longitude) or (None, None)
GeoResults == {<<None, None>>, <<Some(18), Some(73)>>}

\* a data provider answers with its data or fails with a request error
Outcomes == {"ok", "error"}

\* get_current_weather(latitude, longitude, lang)
get_current_weather(outcome, lat, lon, lang) ==
    IF outcome = "ok"
    THEN <<"weather", lat, lon, lang>>
    ELSE <<"weather_error", lang>>

\* get_soil_data(latitude, longitude, lang)
get_soil_data(outcome, lat, lon, lang) ==
    IF outcome = "ok" THEN <<"soil", lang>> ELSE <<"soil_error", lang>>

\* get_ndvi_advice(latitude, longitude, crop_name, lang): a fixed text
get_ndvi_advice(lat, lon, crop_name, lang) == <<"ndvi", crop_name, lang>>

\* get_market_prices(crop_name, lang): a table of three crops
get_market_prices(crop_name, lang) ==
    IF crop_name \in {"wheat", "rice", "corn"}
    THEN <<"market", crop_name, lang>>
    ELSE <<"market_unavailable", lang>>

\* translate_and_tts(text, lang_code, session_id): the path of the audio
\* file, or None when gTTS raised
translate_and_tts(outcome, session_id) ==
    IF outcome = "ok"
    THEN Some(<<"static/", "audio/response_", session_id, ".mp3">>)
    ELSE None

\* audio_path.replace('static/', '/audio/')
AudioUrl(audio_path) ==
    [i \in DOMAIN audio_path |->
        IF audio_path[i] = "static/" THEN "/audio/" ELSE audio_path[i]]

---------------------------------------------------------------------------
(* Sessions *)

\* the state get_session_data gives an unseen session id
NewSession ==
    [step |-> 0, name |-> None, address |-> None, lang |-> "hi",
     farmer_id |-> None, problem_text |-> None]

\* a store that keeps one state for all session ids
OneStateForAll(ss, session_id) ==
    LET ss1 == IF session_id \in DOMAIN ss THEN ss ELSE ss @@ (session_id :> NewSession)
    IN  [sid \in DOMAIN ss1 |-> ss1[session_id]]

\* get_session_data(session_id): the dict after the call
get_session_data(ss, session_id) ==
    IF session_id \in DOMAIN ss THEN ss ELSE ss @@ (session_id :> NewSession)

---------------------------------------------------------------------------
(* Name and address parsing of step 1 *)

StripTitleAll(parts) == [i \in DOMAIN parts |-> Title(Strip(parts[i]))]

ParseParts(farmer_input) ==
    LET byComma == StripTitleAll(SplitOn(farmer_input, ","))
    IN  IF Len(byComma) < 2 THEN StripTitleAll(SplitWs(farmer_input)) ELSE byComma

ParseName(farmer_input) ==
    LET parts == ParseParts(farmer_input)
    IN  IF parts # <<>> THEN parts[1] ELSE Kisan

ParseAddress(farmer_input) ==
    LET parts == ParseParts(farmer_input)
    IN  IF Len(parts) > 1 THEN Join(Tail(parts), <<" ">>) ELSE UnknownAddress

---------------------------------------------------------------------------
(* Responses *)

NoResponse ==
    [status |-> 0, kind |-> "none", lang |-> "", args |-> <<>>,
     audio_url |-> None, next_step |-> None]

\* jsonify({'text_response': ..., 'audio_url': ..., 'next_step': ...})
Reply(kind, lang, args, audio_path, next_step) ==
    [status |-> 200, kind |-> kind, lang |-> lang, args |-> args,
     audio_url |-> Some(AudioUrl(Val(audio_path))), next_step |-> Some(next_step)]

\* audio_path is None: audio_path.replace raises AttributeError while the
\* response is built, and Flask answers 500
ServerError ==
    [status |-> 500, kind |-> "exception", lang |-> "", args |-> <<>>,
     audio_url |-> None, next_step |-> None]

\* a handler's reply with the speech renderer's result
ReplyOrCrash(kind, lang, args, audio_path, next_step) ==
    IF IsSome(audio_path)
    THEN Reply(kind, lang, args, audio_path, next_step)
    ELSE ServerError

\* jsonify({'error': ...}), 400
ClientError(message) ==
    [status |-> 400, kind |-> message, lang |-> "", args |-> <<>>,
     audio_url |-> None, next_step |-> None]

\* the 400 reply of step >= 3 without coordinates: text and next_step only
NeedAddress(lang) ==
    [status |-> 400, kind |-> "need_address", lang |-> lang, args |-> <<>>,
     audio_url |-> None, next_step |-> Some(1)]

---------------------------------------------------------------------------
(* Follow-up router: keyword lists of get_active_chat_response.  A         *)
(* Devanagari character is written as its code point.                      *)

MarketKeywords ==
    { <<"U+092C","U+093E","U+091C","U+093E","U+0930">>,
      <<"U+0915","U+0940","U+092E","U+0924">>,
      <<"p","r","i","c","e">>,
      <<"m","a","r","k","e","t">> }

WeatherKeywords ==
    { <<"U+092E","U+094C","U+0938","U+092E">>,
      <<"w","e","a","t","h","e","r">>,
      <<"U+0924","U+093E","U+092A","U+092E","U+093E","U+0928">>,
      <<"t","e","m","p","e","r","a","t","u","r","e">> }

SoilKeywords ==
    { <<"U+092E","U+093F","U+091F","U+094D","U+091F","U+0940">>,
      <<"s","o","i","l">>,
      <<"p","h">> }

ThanksKeywords ==
    { <<"U+0927","U+0928","U+094D","U+092F","U+0935","U+093E","U+0926">>,
      <<"t","h","a","n","k","s">> }

ContainsAny(s, kws) == \E kw \in kws : Contains(s, kw)

\* a router that looks for the weather keywords first
RouteWeatherFirst(query_text, last_problem_summary) ==
    LET query == Lower(query_text)
    IN  IF ContainsAny(query, WeatherKeywords)
        THEN "weather"
        ELSE IF ContainsAny(query, MarketKeywords) /\ TruthyText(last_problem_summary)
        THEN "market"
        ELSE IF ContainsAny(query, SoilKeywords)
        THEN "soil"
        ELSE IF ContainsAny(query, ThanksKeywords)
        THEN "thanks"
        ELSE "fallback"

\* the branch get_active_chat_response takes
Route(query_text, last_problem_summary) ==
    LET query == Lower(query_text)
    IN  IF ContainsAny(query, MarketKeywords) /\ TruthyText(last_problem_summary)
        THEN "market"
        ELSE IF ContainsAny(query, WeatherKeywords)
        THEN "weather"
        ELSE IF ContainsAny(query, SoilKeywords)
        THEN "soil"
        ELSE IF ContainsAny(query, ThanksKeywords)
        THEN "thanks"
        ELSE "fallback"

\* the response_text of the branch
ChatText(route, outcome, lat, lon, lang) ==
    CASE route = "market" -> get_market_prices("wheat", lang)
      [] route = "weather" -> get_current_weather(outcome, lat, lon, lang)
      [] route = "soil" -> get_soil_data(outcome, lat, lon, lang)
      [] route = "thanks" -> <<"thanks", lang>>
      [] OTHER -> <<"capabilities", lang>>

\* final_advice of get_api_advice: the four sections and the market hint
FinalAdvice(problem_text, weather_info, soil_info, ndvi_advice, lang) ==
    << <<"problem", problem_text>>, <<"weather_info", weather_info>>,
       <<"soil_advice", soil_info>>, <<"crop_health", ndvi_advice>>,
       <<"market_hint", lang>> >>

---------------------------------------------------------------------------
(* Local variables of a handler *)

NoLocals ==
    [kind |-> "none", session_id |-> NoSid, farmer_input |-> <<>>, step |-> 0,
     lang |-> "hi", name |-> <<>>, address |-> <<>>, farmer_id |-> None,
     farmer |-> None, new_farmer |-> None, lat |-> None, lon |-> None,
     route |-> "none", text |-> <<>>, audio_path |-> Unbound]

\* a thread that is serving a request
Busy(r) == pc[r] # "idle"

\* a free thread takes the next request; which one does not matter, so it
\* is the first
FirstIdle == IF pc["t1"] = "idle" THEN "t1" ELSE "t2"

\* A response is sent as soon as its handler has returned, so a state in
\* which a thread is at "done" is the state its handler returned in: no
\* handler takes a step while a response waits to be sent.
Ready == \A q \in Threads : pc[q] # "done"

Init ==
    /\ farmers = <<>>
    /\ session_states = <<>>
    /\ pc = [r \in Threads |-> "idle"]
    /\ loc = [r \in Threads |-> NoLocals]
    /\ resp = [r \in Threads |-> NoResponse]

\* the handler returns: the thread holds its response, and its locals as
\* they were at the return, until respond(r) sends it
Return(r, locals, response) ==
    /\ pc' = [pc EXCEPT ![r] = "done"]
    /\ loc' = [loc EXCEPT ![r] = locals]
    /\ resp' = [resp EXCEPT ![r] = response]

\* the thread goes on to its next blocking call
Goto(r, locals, label) ==
    /\ pc' = [pc EXCEPT ![r] = label]
    /\ loc' = [loc EXCEPT ![r] = locals]
    /\ UNCHANGED resp

\* the response is sent and the thread is free for the next request
respond(r) ==
    /\ pc[r] = "done"
    /\ pc' = [pc EXCEPT ![r] = "idle"]
    /\ loc' = [loc EXCEPT ![r] = NoLocals]
    /\ resp' = [resp EXCEPT ![r] = NoResponse]
    /\ UNCHANGED <<farmers, session_states>>

---------------------------------------------------------------------------
(* POST /api/start_session *)

\* a start_session that begins every session afresh
StartFresh(ss, session_id, lang) ==
    (session_id :> [NewSession EXCEPT !.lang = lang, !.step = 1]) @@ ss

\* lines 229-233: what the call makes of the session store ss
StartEffect(ss, session_id, lang) ==
    LET ss1 == get_session_data(ss, session_id)
    IN  [ss1 EXCEPT ![session_id].lang = lang, ![session_id].step = 1]

start_session(r, session_id, lang) ==
    LET locals == [NoLocals EXCEPT !.kind = "start", !.session_id = session_id,
                                   !.lang = lang]
    IN  /\ Ready
        /\ r = FirstIdle /\ ~Busy(r)
        /\ UNCHANGED farmers
        /\ IF session_id = NoSid
           THEN /\ Return(r, locals, ClientError("Missing session ID"))
                /\ UNCHANGED session_states
           ELSE \E tts \in Outcomes :
                LET audio_path == translate_and_tts(tts, session_id)
                IN  /\ session_states' = StartEffect(session_states, session_id, lang)
                    /\ Return(r, [locals EXCEPT !.audio_path = audio_path],
                              ReplyOrCrash("welcome", lang, <<>>, audio_path, 1))

---------------------------------------------------------------------------
(* POST /api/chat *)

\* lines 254-263 and the statements of the step's branch up to its query
chat_begin(r, session_id, query) ==
    LET farmer_input == Strip(query)
        ss == get_session_data(session_states, session_id)
        step == ss[session_id].step
        lang == ss[session_id].lang
        early == [NoLocals EXCEPT !.kind = "chat", !.session_id = session_id,
                                  !.farmer_input = farmer_input]
        locals == [early EXCEPT !.step = step, !.lang = lang]
    IN  /\ Ready
        /\ r = FirstIdle /\ ~Busy(r)
        /\ UNCHANGED farmers
        /\ IF session_id = NoSid \/ farmer_input = <<>>
           THEN /\ Return(r, early, ClientError("Missing session ID or query"))
                /\ UNCHANGED session_states
           ELSE CASE step = 1 ->
                     /\ session_states' =
                            [ss EXCEPT ![session_id].name = Some(ParseName(farmer_input)),
                                       ![session_id].address = Some(ParseAddress(farmer_input))]
                     /\ Goto(r, [locals EXCEPT !.name = ParseName(farmer_input),
                                               !.address = ParseAddress(farmer_input)],
                             "t1_query")
                  [] step = 2 ->
                     /\ session_states' =
                            [ss EXCEPT ![session_id].problem_text = Some(farmer_input),
                                       ![session_id].step = 3]
                     /\ Goto(r, [locals EXCEPT !.farmer_id = ss[session_id].farmer_id],
                             "t2_get")
                  [] step >= 3 ->
                     /\ session_states' = ss
                     /\ Goto(r, [locals EXCEPT !.farmer_id = ss[session_id].farmer_id],
                             "t3_get")
                  [] OTHER ->
                     /\ session_states' = ss
                     /\ Return(r, locals, ClientError("Invalid conversation step."))

\* step 1, lines 280-306: the lookup and what the handler does with it
step1_lookup(r) ==
    LET l == loc[r]
        sid == l.session_id
        farmer == FindByNameAddress(farmers, l.name, l.address)
    IN  /\ Ready
        /\ pc[r] = "t1_query"
        /\ UNCHANGED farmers
        /\ IF IsSome(farmer)
           THEN LET row == farmers[Val(farmer)]
                IN  IF TruthyText(row.last_problem_summary)
                    THEN /\ session_states' =
                                [session_states EXCEPT ![sid].farmer_id = farmer,
                                                       ![sid].step = 3]
                         /\ Goto(r, [l EXCEPT !.farmer = farmer,
                                              !.text = <<"recap", row.name,
                                                         Val(row.last_problem_summary)>>],
                                 "t1_reply")
                    ELSE /\ session_states' =
                                [session_states EXCEPT ![sid].farmer_id = farmer,
                                                       ![sid].step = 2]
                         /\ Goto(r, [l EXCEPT !.farmer = farmer,
                                              !.text = <<"welcome_back", row.name>>],
                                 "t1_reply")
           ELSE /\ session_states' = [session_states EXCEPT ![sid].step = 2]
                /\ Goto(r, [l EXCEPT !.farmer = None,
                                     !.text = <<"thanks_new", l.name>>],
                        "t1_commit")

\* step 1, lines 309-313: db.session.add(new_farmer); db.session.commit()
step1_insert(r) ==
    LET l == loc[r]
        sid == l.session_id
    IN  /\ Ready
        /\ pc[r] = "t1_commit"
        /\ IF ViolatesUnique(farmers, l.name, l.address)
           THEN \* IntegrityError leaves the handler: Flask answers 500
                /\ Return(r, l, ServerError)
                /\ UNCHANGED <<farmers, session_states>>
           ELSE /\ Len(farmers) < MaxFarmers
                /\ farmers' = Append(farmers, NewFarmer(l.name, l.address, l.lang))
                /\ session_states' =
                       [session_states EXCEPT ![sid].farmer_id = Some(Len(farmers) + 1)]
                /\ Goto(r, [l EXCEPT !.new_farmer = Some(Len(farmers) + 1)], "t1_reply")

\* step 1, lines 315-322: speech, then the reply with the session's step
step1_reply(r) ==
    LET l == loc[r]
        sid == l.session_id
    IN  /\ Ready
        /\ pc[r] = "t1_reply"
        /\ UNCHANGED <<farmers, session_states>>
        /\ \E tts \in Outcomes :
             LET audio_path == translate_and_tts(tts, sid)
             IN  Return(r, [l EXCEPT !.audio_path = audio_path],
                        ReplyOrCrash(l.text[1], l.lang, Tail(l.text), audio_path,
                                     session_states[sid].step))

\* step 2, lines 331-335 and 355-363: load the session's farmer
step2_get(r) ==
    LET l == loc[r]
        sid == l.session_id
        farmer == GetFarmer(farmers, l.farmer_id)
    IN  /\ Ready
        /\ pc[r] = "t2_get"
        /\ UNCHANGED <<farmers, session_states>>
        /\ IF IsSome(farmer)
           THEN Goto(r, [l EXCEPT !.farmer = farmer], "t2_geocode")
           ELSE \E tts \in Outcomes :
                LET audio_path == translate_and_tts(tts, sid)
                IN  Return(r, [l EXCEPT !.farmer = None, !.audio_path = audio_path],
                           ReplyOrCrash("internal_error", l.lang, <<>>, audio_path, 1))

\* a step 2 that commits the problem summary before it calls the geocoder
GeocodeAfterCommit(r) ==
    LET l == loc[r]
        fid == Val(l.farmer)
    IN  /\ Ready
        /\ pc[r] = "t2_geocode"
        /\ UNCHANGED session_states
        /\ \E g \in GeoResults :
             IF TruthyNum(g[1]) /\ TruthyNum(g[2])
             THEN /\ farmers' = [farmers EXCEPT
                         ![fid].last_problem_summary = Some(l.farmer_input),
                         ![fid].lat = g[1],
                         ![fid].lon = g[2]]
                  /\ Goto(r, [l EXCEPT !.lat = g[1], !.lon = g[2]], "advice")
             ELSE /\ farmers' = [farmers EXCEPT
                         ![fid].last_problem_summary = Some(l.farmer_input)]
                  /\ Goto(r, [l EXCEPT !.lat = g[1], !.lon = g[2]], "t2_failed")

\* step 2, lines 335-346: the geocoder answers; coordinates and problem
\* summary are committed, or the pending change is dropped
step2_geocode(r) ==
    LET l == loc[r]
        fid == Val(l.farmer)
    IN  /\ Ready
        /\ pc[r] = "t2_geocode"
        /\ UNCHANGED session_states
        /\ \E g \in GeoResults :
             IF TruthyNum(g[1]) /\ TruthyNum(g[2])
             THEN /\ farmers' = [farmers EXCEPT
                         ![fid].last_problem_summary = Some(l.farmer_input),
                         ![fid].lat = g[1],
                         ![fid].lon = g[2]]
                  /\ Goto(r, [l EXCEPT !.lat = g[1], !.lon = g[2]], "advice")
             ELSE /\ UNCHANGED farmers
                  /\ Goto(r, [l EXCEPT !.lat = g[1], !.lon = g[2]], "t2_failed")

\* step 2, lines 347-354: speech, then the step goes back to 1
step2_geocode_failed(r) ==
    LET l == loc[r]
        sid == l.session_id
    IN  /\ Ready
        /\ pc[r] = "t2_failed"
        /\ UNCHANGED farmers
        /\ \E tts \in Outcomes :
             LET audio_path == translate_and_tts(tts, sid)
             IN  /\ session_states' = [session_states EXCEPT ![sid].step = 1]
                 /\ Return(r, [l EXCEPT !.audio_path = audio_path],
                           ReplyOrCrash("geocode_failed", l.lang, <<>>, audio_path, 1))

\* get_api_advice: providers, speech, then the step becomes 4
get_api_advice(r) ==
    LET l == loc[r]
        sid == l.session_id
    IN  /\ Ready
        /\ pc[r] = "advice"
        /\ UNCHANGED farmers
        /\ \E weather, soil, tts \in Outcomes :
             LET weather_info == get_current_weather(weather, Val(l.lat), Val(l.lon), l.lang)
                 soil_info == get_soil_data(soil, Val(l.lat), Val(l.lon), l.lang)
                 ndvi_advice == get_ndvi_advice(Val(l.lat), Val(l.lon), "rice", l.lang)
                 final_advice == FinalAdvice(l.farmer_input, weather_info, soil_info,
                                             ndvi_advice, l.lang)
                 audio_path == translate_and_tts(tts, sid)
             IN  /\ session_states' = [session_states EXCEPT ![sid].step = 4]
                 /\ Return(r, [l EXCEPT !.audio_path = audio_path],
                           ReplyOrCrash("advice", l.lang, final_advice, audio_path, 4))

\* step >= 3, lines 367-377 and the branch of get_active_chat_response
step3_get(r) ==
    LET l == loc[r]
        farmer == GetFarmer(farmers, l.farmer_id)
    IN  /\ Ready
        /\ pc[r] = "t3_get"
        /\ UNCHANGED <<farmers, session_states>>
        /\ IF ~IsSome(farmer) \/ ~TruthyNum(farmers[Val(farmer)].lat)
           THEN Return(r, [l EXCEPT !.farmer = farmer], NeedAddress(l.lang))
           ELSE LET row == farmers[Val(farmer)]
                IN  Goto(r, [l EXCEPT
                               !.farmer = farmer,
                               !.lat = row.lat,
                               !.lon = row.lon,
                               !.route = Route(l.farmer_input, row.last_problem_summary)],
                         "t3_chat")

\* a router that moves the session to step 4 when it has answered
RouterSetsStep(r) ==
    LET l == loc[r]
        sid == l.session_id
    IN  /\ Ready
        /\ pc[r] = "t3_chat"
        /\ UNCHANGED farmers
        /\ \E outcome, tts \in Outcomes :
             LET response_text == ChatText(l.route, outcome, Val(l.lat), Val(l.lon), l.lang)
                 audio_path == translate_and_tts(tts, sid)
             IN  /\ session_states' = [session_states EXCEPT ![sid].step = 4]
                 /\ Return(r, [l EXCEPT !.audio_path = audio_path],
                           ReplyOrCrash("chat", l.lang, response_text, audio_path, 4))

\* get_active_chat_response: provider, speech, reply with the session's step
get_active_chat_response(r) ==
    LET l == loc[r]
        sid == l.session_id
    IN  /\ Ready
        /\ pc[r] = "t3_chat"
        /\ UNCHANGED <<farmers, session_states>>
        /\ \E outcome, tts \in Outcomes :
             LET response_text == ChatText(l.route, outcome, Val(l.lat), Val(l.lon), l.lang)
                 audio_path == translate_and_tts(tts, sid)
             IN  Return(r, [l EXCEPT !.audio_path = audio_path],
                        ReplyOrCrash("chat", l.lang, response_text, audio_path,
                                     session_states[sid].step))

---------------------------------------------------------------------------

Next ==
    \E r \in Threads :
        \/ respond(r)
        \/ \E session_id \in SessionIds \cup {NoSid} :
               start_session(r, session_id, ClientLang(session_id))
        \/ \E session_id \in SessionIds \cup {NoSid} :
             \E query \in Queries(StepOf(session_id)) :
               chat_begin(r, session_id, query)
        \/ step1_lookup(r)
        \/ step1_insert(r)
        \/ step1_reply(r)
        \/ step2_get(r)
        \/ step2_geocode(r)
        \/ step2_geocode_failed(r)
        \/ get_api_advice(r)
        \/ step3_get(r)
        \/ get_active_chat_response(r)

Spec == Init /\ [][Next]_vars

---------------------------------------------------------------------------
(* Properties.  A thread at "done" shows the state its handler returned    *)
(* in, together with the handler's locals and its response.                *)

\* the handler of thread r has just returned
Done(r) == pc[r] = "done"

\* thread r served a chat request that passed the input check of line 258
Turn(r) == loc[r].kind = "chat" /\ loc[r].session_id # NoSid /\ loc[r].farmer_input # <<>>

\* the session of the request thread r served
Sess(r) == session_states[loc[r].session_id]

\* thread r is in the chat handler, between its read of the session and its return
Handling(r) == loc[r].kind = "chat" /\ pc[r] \notin {"idle", "done"}

\* C1: a turn handled at step 1 ends at step 3 when the lookup found an
\* Identity with a problem summary, at step 2 without creating an Identity
\* when it found one with no summary, and at step 2 with exactly one new
\* Identity (parsed name, address, session language) when it found none.
C1_Step1Outcome ==
    \A r \in Threads :
        Done(r) /\ Turn(r) /\ loc[r].step = 1 =>
            LET l == loc[r]
                s == Sess(r)
            IN  /\ IsSome(l.farmer) /\ l.text[1] = "recap" =>
                       s.step = 3
                /\ IsSome(l.farmer) /\ l.text[1] = "welcome_back" =>
                       s.step = 2 /\ l.new_farmer = None
                /\ ~IsSome(l.farmer) =>
                       /\ IsSome(l.new_farmer)
                       /\ farmers[Val(l.new_farmer)] = NewFarmer(l.name, l.address, s.lang)
                       /\ s.step = 2

\* C2: a turn handled at step 2 whose Identity exists and whose address the
\* geocoder resolved leaves the coordinates and the problem text on the
\* Identity, replies with the composite advisory and ends at step 4.
C2_Step2Success ==
    \A r \in Threads :
        Done(r) /\ Turn(r) /\ loc[r].step = 2 /\ IsSome(loc[r].farmer)
                /\ TruthyNum(loc[r].lat) /\ TruthyNum(loc[r].lon) =>
            LET l == loc[r]
                row == farmers[Val(l.farmer)]
            IN  /\ row.lat = l.lat /\ row.lon = l.lon
                /\ row.last_problem_summary = Some(l.farmer_input)
                /\ resp[r].status = 200 /\ resp[r].kind = "advice"
                /\ Sess(r).step = 4

\* C3: a turn handled at step 2 whose address the geocoder did not resolve
\* ends at step 1, replies with the request for a clearer address and
\* leaves the Identity without coordinates.
C3_Step2GeocodeFailure ==
    \A r \in Threads :
        Done(r) /\ Turn(r) /\ loc[r].step = 2 /\ IsSome(loc[r].farmer)
                /\ ~(TruthyNum(loc[r].lat) /\ TruthyNum(loc[r].lon)) =>
            LET row == farmers[Val(loc[r].farmer)]
            IN  /\ Sess(r).step = 1
                /\ resp[r].status = 200 /\ resp[r].kind = "geocode_failed"
                /\ row.lat = None /\ row.lon = None

\* C4: a turn handled at step 2 whose session refers to no persisted
\* Identity replies with the internal-error message and leaves the stored
\* step at 1.
C4_Step2MissingIdentity ==
    \A r \in Threads :
        Done(r) /\ Turn(r) /\ loc[r].step = 2 /\ ~IsSome(loc[r].farmer) =>
            /\ resp[r].kind = "internal_error"
            /\ Sess(r).step = 1

\* C5: a turn handled at step >= 3 whose Identity is missing or has no
\* coordinates replies with the request for an address and leaves the
\* stored step at 1.
C5_Step3NoCoordinates ==
    \A r \in Threads :
        Done(r) /\ Turn(r) /\ loc[r].step >= 3
                /\ (~IsSome(loc[r].farmer) \/ ~TruthyNum(loc[r].lat)) =>
            /\ resp[r].kind = "need_address"
            /\ Sess(r).step = 1

\* C6: a turn in which the speech renderer returned no audio handle still
\* returns its text reply, with a null audio reference.
C6_SpeechFailureDegrades ==
    \A r \in Threads :
        Done(r) /\ loc[r].audio_path = None =>
            /\ resp[r].status = 200
            /\ resp[r].kind \in {"welcome", "recap", "welcome_back", "thanks_new",
                                 "geocode_failed", "internal_error", "advice", "chat"}
            /\ resp[r].audio_url = None

\* the step changes a single chat turn may make
DocumentedEdges ==
    {<<1, 2>>, <<1, 3>>, <<2, 4>>, <<2, 1>>}
        \cup {<<k, 1>> : k \in 3..4}
        \cup {<<k, k>> : k \in 0..4}

\* C7: every session's step is one of the defined states; a chat turn
\* changes it only along a documented edge, and start_session sets it to 1.
C7_StepEdges ==
    /\ \A sid \in DOMAIN session_states : session_states[sid].step \in 0..4
    /\ \A r \in Threads :
           /\ Done(r) /\ Turn(r) => <<loc[r].step, Sess(r).step>> \in DocumentedEdges
           /\ Done(r) /\ loc[r].kind = "start" /\ loc[r].session_id # NoSid =>
                  Sess(r).step = 1

\* C8: no two Farmer rows have the same (name, address).
C8_UniqueNameAddress ==
    \A i, j \in DOMAIN farmers :
        farmers[i].name = farmers[j].name /\ farmers[i].address = farmers[j].address
            => i = j

\* a first contact lost the race: its lookup found no row, and its insert
\* was refused because another session's turn had inserted the pair
C8_InsertRefused ==
    \E r \in Threads :
        /\ Done(r) /\ Turn(r) /\ loc[r].step = 1
        /\ ~IsSome(loc[r].farmer) /\ ~IsSome(loc[r].new_farmer)
        /\ resp[r] = ServerError
        /\ \E i \in DOMAIN farmers :
               farmers[i].name = loc[r].name /\ farmers[i].address = loc[r].address

\* another session than that of thread r submitted the (name, address) pair
\* thread r parsed
SubmittedElsewhere(r) ==
    \E sid \in DOMAIN session_states :
        /\ sid # loc[r].session_id
        /\ session_states[sid].name = Some(loc[r].name)
        /\ session_states[sid].address = Some(loc[r].address)

\* C9: when two sessions submit the same (name, address) at step 1, each of
\* the two turns gets past its insert to the speech call of line 317
\* (audio_path is bound) and leaves its session linked to the one Identity
\* with that pair, also when their lookups and inserts interleave.
C9_SecondAttemptReturnsFirst ==
    \A r \in Threads :
        Done(r) /\ Turn(r) /\ loc[r].step = 1 /\ SubmittedElsewhere(r) =>
            /\ loc[r].audio_path # Unbound
            /\ IsSome(Sess(r).farmer_id)
            /\ Val(Sess(r).farmer_id) \in DOMAIN farmers
            /\ farmers[Val(Sess(r).farmer_id)].name = loc[r].name
            /\ farmers[Val(Sess(r).farmer_id)].address = loc[r].address

\* C10: the turns of one session take effect one after the other: while a
\* turn of a session dispatched on step 1 is between its read of the session
\* and its return, no other turn of that session is dispatched on step 1
\* (in a serial order the second would find the step the first left, 2 or 3).
C10_TurnsSerializedPerSession ==
    \A r, q \in Threads :
        r # q /\ Handling(r) /\ Handling(q) /\ loc[r].session_id = loc[q].session_id
            => ~(loc[r].step = 1 /\ loc[q].step = 1)

---------------------------------------------------------------------------
(* start_session, the router, the aggregator and the frame of a request *)

\* thread r takes the step that serves a whole start_session request for a
\* session id
StartStep(r) ==
    /\ pc[r] = "idle" /\ pc'[r] = "done"
    /\ loc'[r].kind = "start" /\ loc'[r].session_id # NoSid

\* C11: a start_session call leaves the session at step 1 whatever it was,
\* a second call with the same arguments would leave the store as the first
\* left it, the Farmer table is untouched and a farmer_id the session holds
\* is kept.
C11_StartSessionIdempotent ==
    [][\A r \in Threads :
          StartStep(r) =>
              LET sid == loc'[r].session_id
                  lang == loc'[r].lang
              IN  /\ session_states'[sid].step = 1
                  /\ StartEffect(session_states', sid, lang) = session_states'
                  /\ farmers' = farmers
                  /\ sid \in DOMAIN session_states =>
                         session_states'[sid].farmer_id = session_states[sid].farmer_id]_vars

\* start_session has returned for a session that was at step 4 and linked
\* to an Identity: it is at step 1 and still linked
C11_RestartKeepsIdentity ==
    \E r \in Threads :
        /\ Done(r) /\ loc[r].kind = "start" /\ loc[r].session_id # NoSid
        /\ Sess(r).step = 1
        /\ IsSome(Sess(r).farmer_id)
        /\ Sess(r).problem_text # None
        /\ Val(Sess(r).farmer_id) \in DOMAIN farmers
        /\ TruthyNum(farmers[Val(Sess(r).farmer_id)].lat)

---------------------------------------------------------------------------
(* The follow-up router as a function of its arguments.  The handler calls *)
(* get_active_chat_response(session_id, farmer, query_text, lang) with any *)
(* Farmer row that has coordinates; last_problem_summary is a nullable     *)
(* column of its own (line 49), so the row is drawn with and without it.   *)

QPrice == <<"p","r","i","c","e">>

QWeatherSoil == <<"W","e","a","t","h","e","r"," ","s","o","i","l">>

QSoilThanks == <<"s","o","i","l",","," ","t","h","a","n","k","s">>

\* the Hindi word for market, followed by the English word weather
QBazaarWeather ==
    <<"U+092C","U+093E","U+091C","U+093E","U+0930"," ","w","e","a","t","h","e","r">>

\* follow-up queries sent to a session in active chat
RouterQueries ==
    {QBlank, QYellow, QPriceWeather, QSoil, QThanks,
     QPrice, QWeatherSoil, QSoilThanks, QBazaarWeather}

\* a geocoded Farmer row with the given last_problem_summary
GeocodedFarmer(last_problem_summary) ==
    [NewFarmer(ParseName(QRaviPune), ParseAddress(QRaviPune), "hi") EXCEPT
        !.lat = Some(18), !.lon = Some(73),
        !.last_problem_summary = last_problem_summary]

\* session s1 is in active chat, linked to the one row of the table
RouterInit ==
    /\ \E summary \in {None, Some(QYellow)} : farmers = <<GeocodedFarmer(summary)>>
    /\ \E step \in {3, 4}, lang \in {"hi", "en"} :
           session_states =
               ("s1" :> [step |-> step,
                         name |-> Some(ParseName(QRaviPune)),
                         address |-> Some(ParseAddress(QRaviPune)),
                         lang |-> lang,
                         farmer_id |-> Some(1),
                         problem_text |-> Some(QYellow)])
    /\ pc = [r \in Threads |-> "idle"]
    /\ loc = [r \in Threads |-> NoLocals]
    /\ resp = [r \in Threads |-> NoResponse]

RouterNext ==
    \E r \in Threads :
        \/ respond(r)
        \/ \E query \in RouterQueries : chat_begin(r, "s1", query)
        \/ step3_get(r)
        \/ get_active_chat_response(r)

RouterSpec == RouterInit /\ [][RouterNext]_vars

\* thread r has been through the router
Routed(r) == loc[r].kind = "chat" /\ loc[r].route # "none"

\* C12: the router takes the first branch that matches in the order market,
\* weather, soil, thanks, fallback; the market branch also needs a non-null
\* last_problem_summary, so that a query with a market and a weather keyword
\* goes to market with a summary and to weather without; the fallback
\* reply is the capability message.
C12_RouterPriority ==
    \A r \in Threads :
        Routed(r) =>
            LET query == Lower(loc[r].farmer_input)
                row == farmers[Val(loc[r].farmer)]
                market == ContainsAny(query, MarketKeywords)
                              /\ IsSome(row.last_problem_summary)
                weather == ContainsAny(query, WeatherKeywords)
                soil == ContainsAny(query, SoilKeywords)
                thanks == ContainsAny(query, ThanksKeywords)
                route == loc[r].route
            IN  /\ route = "market" <=> market
                /\ route = "weather" <=> ~market /\ weather
                /\ route = "soil" <=> ~market /\ ~weather /\ soil
                /\ route = "thanks" <=> ~market /\ ~weather /\ ~soil /\ thanks
                /\ route = "fallback" <=> ~market /\ ~weather /\ ~soil /\ ~thanks
                /\ Done(r) /\ resp[r].status = 200 =>
                       resp[r].args =
                           CASE route = "market" -> get_market_prices("wheat", loc[r].lang)
                             [] route = "fallback" -> <<"capabilities", loc[r].lang>>
                             [] OTHER -> resp[r].args

\* a query with a market and a weather keyword was answered for a row
\* without a summary, by the weather branch
C12_BothKeywordsNoSummary ==
    \E r \in Threads :
        /\ Done(r) /\ Routed(r) /\ resp[r].status = 200
        /\ loc[r].farmer_input = QPriceWeather
        /\ farmers[Val(loc[r].farmer)].last_problem_summary = None
        /\ loc[r].route = "weather"
        /\ resp[r].args[1] \in {"weather", "weather_error"}

---------------------------------------------------------------------------

\* thread r has returned from get_api_advice
Advised(r) ==
    /\ Done(r) /\ Turn(r) /\ loc[r].step = 2
    /\ TruthyNum(loc[r].lat) /\ TruthyNum(loc[r].lon)

\* C13: whichever of the weather and soil providers fail, get_api_advice
\* returns the advisory with the problem, weather, soil and crop-health
\* sections in this order, each holding the text its provider returned
\* (data or error snippet), and the session is at step 4.
C13_ProviderFailureIsolated ==
    \A r \in Threads :
        Advised(r) =>
            LET l == loc[r]
                a == resp[r].args
            IN  /\ resp[r].status = 200 /\ resp[r].kind = "advice"
                /\ Len(a) >= 4
                /\ a[1] = <<"problem", l.farmer_input>>
                /\ \E o \in Outcomes :
                       a[2] = <<"weather_info",
                                get_current_weather(o, Val(l.lat), Val(l.lon), l.lang)>>
                /\ \E o \in Outcomes :
                       a[3] = <<"soil_advice",
                                get_soil_data(o, Val(l.lat), Val(l.lon), l.lang)>>
                /\ a[4] = <<"crop_health",
                            get_ndvi_advice(Val(l.lat), Val(l.lon), "rice", l.lang)>>
                /\ Sess(r).step = 4

\* C14: the next_step a reply carries is the step stored in the session
\* when the handler returns.
C14_NextStepIsStoredStep ==
    \A r \in Threads :
        Done(r) /\ IsSome(resp[r].next_step) =>
            Val(resp[r].next_step) = Sess(r).step

\* thread r calls geocode_address (line 335) for the Identity it loaded
GeocoderCalled(r) == pc[r] = "t2_get" /\ pc'[r] = "t2_geocode"

\* thread r commits coordinates (lines 338-340)
CoordinatesWritten(r) == pc[r] = "t2_geocode" /\ pc'[r] = "advice"

\* C15: the geocoder is not called for an Identity that has coordinates,
\* and coordinates are not written on an Identity that has them.
C15_CoordinatesNotRederived ==
    [][\A r \in Threads :
          /\ GeocoderCalled(r) => ~TruthyNum(farmers[Val(loc'[r].farmer)].lat)
          /\ CoordinatesWritten(r) => ~TruthyNum(farmers[Val(loc[r].farmer)].lat)]_vars

\* no request for session sid is being served
Quiet(sid) == \A r \in Threads : Busy(r) => loc[r].session_id # sid

\* C16: between its requests, a session at step 2 or later holds a
\* farmer_id that refers to a row of the Farmer table.
C16_IdentityLinkedFromStep2 ==
    \A sid \in DOMAIN session_states :
        Quiet(sid) /\ session_states[sid].step >= 2 =>
            /\ IsSome(session_states[sid].farmer_id)
            /\ Val(session_states[sid].farmer_id) \in DOMAIN farmers

\* thread r takes a request
Accepts(r) == pc[r] = "idle" /\ pc'[r] # "idle"

\* the request thread r takes has no session id, or is a chat request whose
\* free text holds nothing but whitespace
InputError(r) ==
    \/ loc'[r].session_id = NoSid
    \/ /\ loc'[r].kind = "chat"
       /\ \A i \in DOMAIN loc'[r].farmer_input : IsSpace(loc'[r].farmer_input[i])

\* C17: a request with an input error is answered at once with a client
\* error and changes neither the session store (no session is created) nor
\* the Farmer table.
C17_InputErrorsMutateNothing ==
    [][\A r \in Threads :
          Accepts(r) /\ InputError(r) =>
              /\ pc'[r] = "done"
              /\ resp'[r].status = 400
              /\ session_states' = session_states
              /\ farmers' = farmers]_vars

\* a chat request with blank text for a session id the server has not seen
\* was rejected, and the session does not exist
C17_BlankQueryUnseenSession ==
    \E r \in Threads :
        /\ Done(r) /\ loc[r].kind = "chat"
        /\ loc[r].session_id \in SessionIds
        /\ loc[r].farmer_input = <<>>
        /\ resp[r] = ClientError("Missing session ID or query")
        /\ loc[r].session_id \notin DOMAIN session_states

\* thread r takes a step of a chat turn dispatched at step >= 3: it is
\* dispatched, loads the Identity, or runs the router
FollowUpStep(r) ==
    \/ Accepts(r) /\ pc'[r] = "t3_get"
    \/ pc[r] \in {"t3_get", "t3_chat"} /\ pc'[r] # pc[r]

\* C18: no step of a chat turn dispatched at step >= 3, whichever branch
\* the router takes, changes the session store (so the step stays what it
\* was) or the Farmer table.
C18_RouterKeepsStep ==
    [][\A r \in Threads :
          FollowUpStep(r) =>
              /\ session_states' = session_states
              /\ farmers' = farmers]_vars

\* a follow-up of a returning user, dispatched at step 3, was answered by
\* the router and the session is at step 3
C18_AnsweredAtStep3 ==
    \E r \in Threads :
        /\ Done(r) /\ Turn(r) /\ Routed(r)
        /\ loc[r].step = 3
        /\ resp[r].status = 200 /\ resp[r].kind = "chat"
        /\ Sess(r).step = 3
        /\ resp[r].next_step = Some(3)

\* C19: a step of a request changes or creates the stored state of no
\* session but the one the request names, and removes none (a handler
\* reaches the store only through the session id of its request).
C19_SessionsIsolated ==
    [][/\ DOMAIN session_states \subseteq DOMAIN session_states'
       /\ \A sid \in DOMAIN session_states' :
              (sid \notin DOMAIN session_states
                   \/ session_states'[sid] # session_states[sid]) =>
                  \E r \in Threads : pc'[r] # pc[r] /\ loc'[r].session_id = sid]_vars

\* a turn of one session has returned while a turn of the other session
\* is being handled, and the two sessions are at different steps
C19_TurnsOfTwoSessionsInterleave ==
    \E r, q \in Threads :
        /\ Done(r) /\ Turn(r) /\ Handling(q)
        /\ loc[q].session_id # loc[r].session_id
        /\ Sess(r).step # Sess(q).step
        /\ Sess(r).problem_text # Sess(q).problem_text

---------------------------------------------------------------------------
(* Name and address parsing over the shapes of input the step-1 branch can *)
(* be given: with a comma, without one, a single token, and with nothing   *)
(* before or after the comma.                                              *)

QRaviPuneWest == <<"r","a","v","i"," ","p","u","n","e"," ","w","e","s","t">>

QRavi == <<"r","a","v","i">>

QRaviComma == <<"r","a","v","i",",">>

QCommaPune == <<",","p","u","n","e">>

QComma == <<",">>

ParseQueries == {QRaviPune, QRaviPuneWest, QRavi, QRaviComma, QCommaPune, QComma}

\* a chat request for session s1 while it is at step 1
parse_turn(r, query) == StepOf("s1") = 1 /\ chat_begin(r, "s1", query)

ParseNext ==
    \E r \in Threads :
        \/ respond(r)
        \/ start_session(r, "s1", "hi")
        \/ \E query \in ParseQueries : parse_turn(r, query)
        \/ step1_lookup(r)
        \/ step1_insert(r)
        \/ step1_reply(r)

ParseSpec == Init /\ [][ParseNext]_vars

\* thread r is in, or has returned from, a chat turn dispatched at step 1
ParsedAtStep1(r) == Busy(r) /\ Turn(r) /\ loc[r].step = 1

\* C20: the address the step-1 branch parses and records is never the
\* empty string: an input that supplies no address text gives the
\* placeholder 'Unknown Address'.
C20_AddressNeverEmpty ==
    /\ \A r \in Threads :
           ParsedAtStep1(r) =>
               /\ loc[r].address # <<>>
               /\ loc[r].address = UnknownAddress
                      \/ Contains(Lower(loc[r].farmer_input), Lower(loc[r].address))
    /\ \A i \in DOMAIN farmers : farmers[i].address # <<>>

---------------------------------------------------------------------------

\* C21: a Farmer row has a last_problem_summary exactly when it has
\* coordinates; a geocoding failure at step 2 persists neither.
C21_SummaryIffCoordinates ==
    \A i \in DOMAIN farmers :
        /\ IsSome(farmers[i].last_problem_summary) <=> IsSome(farmers[i].lat)
        /\ IsSome(farmers[i].lat) <=> IsSome(farmers[i].lon)

\* a step-2 turn whose address the geocoder did not resolve has returned,
\* and the session's Farmer row has neither summary nor coordinates
C21_FailureLeavesRowBare ==
    \E r \in Threads :
        /\ Done(r) /\ Turn(r) /\ loc[r].step = 2
        /\ IsSome(loc[r].farmer)
        /\ resp[r].kind = "geocode_failed"
        /\ Sess(r).problem_text = Some(loc[r].farmer_input)
        /\ farmers[Val(loc[r].farmer)].last_problem_summary = None
        /\ farmers[Val(loc[r].farmer)].lat = None

\* the turn of thread q took the returning-user path (lines 282-292): its
\* lookup found a summary and put the session at step 3, and its reply is
\* still being rendered.  Both request threads are then in use, so no
\* start_session runs before another turn of the session returns.
RecapInFlight(q) ==
    /\ pc[q] = "t1_reply"
    /\ loc[q].text # <<>> /\ loc[q].text[1] = "recap"

\* C22: after a session entered step 3 through the returning-user path,
\* no chat turn of the session that returns before start_session is called
\* again has changed its step, brought it the composite advisory, or
\* changed the Identity's last_problem_summary.
C22_ReturningUserStaysAtStep3 ==
    \A r, q \in Threads :
        /\ r # q /\ RecapInFlight(q)
        /\ Done(r) /\ Turn(r) /\ loc[r].session_id = loc[q].session_id
        => /\ Sess(q).step = 3
           /\ resp[r].kind # "advice"
           /\ farmers[Val(loc[q].farmer)].last_problem_summary = Some(loc[q].text[3])

====
